---------------------------- MODULE Spec2Model ----------------------------
(***************************************************************************)
(* A model of train_utils.py: batch_data, compute_accuracy, run_epoch and  *)
(* train_model of a two-head classifier's training loop.                   *)
(*                                                                         *)
(* Three specifications share the module:                                  *)
(*   SpecBatch  one call of batch_data on drawn inputs,                    *)
(*   SpecAcc    one call of compute_accuracy on drawn inputs,              *)
(*   Spec       one run of train_model (run_epoch statement by statement), *)
(*              which an external kill may end at any point.               *)
(*                                                                         *)
(* Python floats are modelled as exact rationals <<num, den>> (den > 0, in *)
(* lowest terms); <<0, 0>> is not-a-number, what 0.0 / 0 gives in numpy.   *)
(***************************************************************************)
EXTENDS Integers, Sequences, FiniteSets

VARIABLES
    bd,                 \* the batch_data call: arguments, position, result
    ca,                 \* the compute_accuracy call: arguments, position, result
    lr, momentum, nesterov, n_epochs,   \* train_model's hyper-parameters
    train_data, dev_data,               \* the two splits (lists of batches)
    params,             \* model.parameters(): one weight per head
    training,           \* model.training
    grad,               \* the parameters' .grad
    momentum_buffer,    \* the optimizer's per-parameter momentum buffer
    pc,                 \* train_model's position
    epoch,              \* train_model's loop variable
    rpc,                \* run_epoch's position
    is_training,        \* run_epoch's local
    batch_idx,          \* index of the batch run_epoch's loop is at
    out,                \* (out1, out2) of the current batch's forward pass
    losses_first_label, losses_second_label,
    batch_accuracies_first, batch_accuracies_second,
    loss1, loss2, joint_loss,
    returned,           \* the value run_epoch last returned
    lines_printed,      \* console lines written so far
    file,               \* the checkpoint file
    hist                \* history of the run, read only by the properties

batchVars == <<bd>>
accVars == <<ca>>
hyperVars == <<lr, momentum, nesterov, n_epochs, train_data, dev_data>>
modelVars == <<params, training, grad, momentum_buffer>>
epochVars == <<rpc, is_training, batch_idx, out, losses_first_label,
               losses_second_label, batch_accuracies_first,
               batch_accuracies_second, loss1, loss2, joint_loss, returned>>
trainerVars == <<pc, epoch, lines_printed, file, hist>>
vars == <<batchVars, accVars, hyperVars, modelVars, epochVars, trainerVars>>

---------------------------------------------------------------------------
(* Bounds of the model.                                                    *)

MaxSamples == 4        \* longest x_data batch_data is called on
MaxBatchSize == 3      \* batch_size ranges over -MaxBatchSize..MaxBatchSize
MaxLen == 3            \* longest vectors compute_accuracy is called on
MaxEpochs == 2         \* largest n_epochs
MaxBatches == 2        \* most batches in a split
TrainerBatchSize == 2  \* batch_size of the splits handed to train_model

Classes == {0, 1}
\* Sample values: one that float32 holds exactly, one that it does not.
Samples == {1, 2^24 + 1}

---------------------------------------------------------------------------
(* Numbers.                                                                *)

Abs(n) == IF n < 0 THEN -n ELSE n
Min(a, b) == IF a < b THEN a ELSE b
Max(a, b) == IF a > b THEN a ELSE b

RECURSIVE GCD(_, _)
GCD(a, b) == IF b = 0 THEN a ELSE GCD(b, a % b)

NaN == <<0, 0>>
IsNaN(q) == q[2] = 0
\* The float n / d; 0 / 0 is NaN (the model never divides a nonzero by 0).
Rat(n, d) ==
    IF d = 0 THEN NaN
    ELSE LET g == GCD(Abs(n), Abs(d))
             s == IF d < 0 THEN -1 ELSE 1
         IN  <<(s * n) \div g, (s * d) \div g>>
Zero == Rat(0, 1)
One == Rat(1, 1)
Half == Rat(1, 2)
RAdd(a, b) ==
    IF IsNaN(a) \/ IsNaN(b) THEN NaN
    ELSE Rat(a[1] * b[2] + b[1] * a[2], a[2] * b[2])
RMul(a, b) ==
    IF IsNaN(a) \/ IsNaN(b) THEN NaN ELSE Rat(a[1] * b[1], a[2] * b[2])
RNeg(a) == <<-a[1], a[2]>>
RSub(a, b) == RAdd(a, RNeg(b))
RDivInt(a, k) == IF IsNaN(a) THEN NaN ELSE Rat(a[1], a[2] * k)
RLeq(a, b) == ~IsNaN(a) /\ ~IsNaN(b) /\ a[1] * b[2] <= b[1] * a[2]

RECURSIVE SumSeq(_)
SumSeq(s) == IF s = <<>> THEN Zero ELSE RAdd(s[1], SumSeq(Tail(s)))

Mean_NoDivide(s) == SumSeq(s)
\* np.mean of a list: the sum over the count, NaN for an empty list.
Mean(s) == RDivInt(SumSeq(s), Len(s))

---------------------------------------------------------------------------
(* Python's int(), range() and slicing, and the tensor conversions.        *)

\* int(a / b) for b # 0: true division, then truncation toward zero.
IntOfQuotient(a, b) ==
    IF (a >= 0) = (b > 0) THEN Abs(a) \div Abs(b) ELSE -(Abs(a) \div Abs(b))

\* list(range(start, stop, step)) for step # 0.
Range(start, stop, step) ==
    LET span == IF step > 0 THEN stop - start ELSE start - stop
        n == IF span <= 0 THEN 0 ELSE (span + Abs(step) - 1) \div Abs(step)
    IN  [k \in 1..n |-> start + (k - 1) * step]

\* s[i:j], indices counted from 0, negative ones from the end, both clipped.
Slice(s, i, j) ==
    LET clip(k) == IF k < 0 THEN Max(Len(s) + k, 0) ELSE Min(k, Len(s))
    IN  SubSeq(s, clip(i) + 1, clip(j))

\* The spacing of float32 values around the integer v: 1 up to 2^24, doubling
\* with every further binary digit.
RECURSIVE Float32Spacing(_, _)
Float32Spacing(v, s) ==
    IF Abs(v) <= (2^24) * s THEN s ELSE Float32Spacing(v, 2 * s)

\* torch.tensor(v, dtype=torch.float32) of an integer v: the nearest float32,
\* ties to the even mantissa.
Float32(v) ==
    LET s == Float32Spacing(v, 1)
        lo == (v \div s) * s
        hi == lo + s
    IN  IF v = lo THEN v
        ELSE IF v - lo < hi - v THEN lo
        ELSE IF v - lo > hi - v THEN hi
        ELSE IF (lo \div s) % 2 = 0 THEN lo ELSE hi

\* torch.tensor(v, dtype=torch.int64) of a class label: labels are small
\* non-negative integers, which int64 holds unchanged.
Int64(v) == v

MapSeq(F(_), s) == [k \in 1..Len(s) |-> F(s[k])]

---------------------------------------------------------------------------
(* batch_data.                                                             *)

NumSamples_AbsStep(x_data, batch_size) ==
    IntOfQuotient(Len(x_data), batch_size) * Abs(batch_size)
\* N of batch_data: the number of samples that fill whole batches.
NumSamples(x_data, batch_size) ==
    IntOfQuotient(Len(x_data), batch_size) * batch_size

Batch_NoStride(x_data, y_data, i, batch_size) ==
    [x |-> MapSeq(Float32, Slice(x_data, 0, batch_size)),
     y |-> <<MapSeq(Int64, Slice(y_data[1], 0, batch_size)),
             MapSeq(Int64, Slice(y_data[2], 0, batch_size))>>]
\* The batch that starts at sample i (counted from 0).
Batch(x_data, y_data, i, batch_size) ==
    [x |-> MapSeq(Float32, Slice(x_data, i, i + batch_size)),
     y |-> <<MapSeq(Int64, Slice(y_data[1], i, i + batch_size)),
             MapSeq(Int64, Slice(y_data[2], i, i + batch_size))>>]

\* batch_data(x_data, y_data, batch_size) for batch_size # 0.
batch_data(x_data, y_data, batch_size) ==
    LET starts == Range(0, NumSamples(x_data, batch_size), batch_size)
    IN  [k \in 1..Len(starts) |-> Batch(x_data, y_data, starts[k], batch_size)]

---------------------------------------------------------------------------
(* compute_accuracy.                                                       *)

\* tensor.cpu().detach().numpy(): a host copy holding the same integers.
tensor2array(tensor) == [k \in 1..Len(tensor) |-> tensor[k]]

np_equal_Leq(a, b) == [k \in 1..Len(a) |-> a[k] <= b[k]]
\* np.equal of two arrays of one length: elementwise ==.
np_equal(a, b) == [k \in 1..Len(a) |-> a[k] = b[k]]

\* np.mean of a boolean array: True counts 1, False 0.
MeanOfBools(e) == Mean([k \in 1..Len(e) |-> IF e[k] THEN One ELSE Zero])

compute_accuracy(predictions, y) ==
    MeanOfBools(np_equal(tensor2array(predictions), tensor2array(y)))

---------------------------------------------------------------------------
(* Values the variables of a specification that does not use them keep.    *)

SeqsOfLen(S, n) == [1..n -> S]

NoCall == [pc |-> "unused"]
BatchUnused == bd = NoCall
AccUnused == ca = NoCall
TrainerUnused ==
    /\ lr = Zero /\ momentum = Zero /\ nesterov = FALSE /\ n_epochs = 0
    /\ train_data = <<>> /\ dev_data = <<>>
    /\ params = <<>> /\ training = FALSE /\ grad = <<>>
    /\ momentum_buffer = <<>>
    /\ pc = "unused" /\ epoch = 0 /\ rpc = "unused" /\ is_training = FALSE
    /\ batch_idx = 0 /\ out = <<>>
    /\ losses_first_label = <<>> /\ losses_second_label = <<>>
    /\ batch_accuracies_first = <<>> /\ batch_accuracies_second = <<>>
    /\ loss1 = Zero /\ loss2 = Zero /\ joint_loss = Zero
    /\ returned = <<>> /\ lines_printed = 0 /\ file = <<>> /\ hist = <<>>

---------------------------------------------------------------------------
(* SpecBatch: one call of batch_data.                                      *)

InitBatch ==
    /\ \E n \in 0..MaxSamples :
         \E x \in SeqsOfLen(Samples, n), ya \in SeqsOfLen(Classes, n),
            yb \in SeqsOfLen(Classes, n), b \in -MaxBatchSize..MaxBatchSize :
           bd = [pc |-> "call", x_data |-> x, y_data |-> <<ya, yb>>,
                 batch_size |-> b, raised |-> "", batches |-> <<>>]
    /\ AccUnused
    /\ TrainerUnused

\* Line 22 divides by batch_size: Python raises ZeroDivisionError on 0.
BatchDataRaise ==
    /\ bd.pc = "call"
    /\ bd.batch_size = 0
    /\ bd' = [bd EXCEPT !.pc = "raised", !.raised = "ZeroDivisionError"]
    /\ UNCHANGED <<accVars, hyperVars, modelVars, epochVars, trainerVars>>

BatchDataReturn ==
    /\ bd.pc = "call"
    /\ bd.batch_size # 0
    /\ bd' = [bd EXCEPT !.pc = "returned",
                        !.batches = batch_data(bd.x_data, bd.y_data,
                                               bd.batch_size)]
    /\ UNCHANGED <<accVars, hyperVars, modelVars, epochVars, trainerVars>>

NextBatch == BatchDataRaise \/ BatchDataReturn
SpecBatch == InitBatch /\ [][NextBatch]_vars

---------------------------------------------------------------------------
(* SpecAcc: one call of compute_accuracy.                                  *)

InitAcc ==
    /\ \E n \in 0..MaxLen :
         \E p \in SeqsOfLen(Classes, n), y \in SeqsOfLen(Classes, n) :
           ca = [pc |-> "call", predictions |-> p, y |-> y,
                 given |-> <<p, y>>, result |-> NaN]
    /\ BatchUnused
    /\ TrainerUnused

ComputeAccuracy ==
    /\ ca.pc = "call"
    /\ ca' = [ca EXCEPT !.pc = "returned",
                        !.result = compute_accuracy(ca.predictions, ca.y)]
    /\ UNCHANGED <<batchVars, hyperVars, modelVars, epochVars, trainerVars>>

NextAcc == ComputeAccuracy
SpecAcc == InitAcc /\ [][NextAcc]_vars

---------------------------------------------------------------------------
(* The model handed to train_model, as far as run_epoch reads it.           *)

Heads == {1, 2}
ZeroVector == [h \in Heads |-> Zero]

\* The labels of the two heads for the k-th sample of a split: 0,1,0,1,...
\* for the first head and 1,0,1,0,... for the second.
SplitOf(n_batches, batch_size) ==
    LET n == n_batches * batch_size + 1
    IN  batch_data([k \in 1..n |-> 1],
                   <<[k \in 1..n |-> (k - 1) % 2], [k \in 1..n |-> k % 2]>>,
                   batch_size)

\* A prediction vector that misses the gold label at the first position only.
FirstWrong(y) == [k \in 1..Len(y) |-> IF k = 1 THEN 1 - y[k] ELSE y[k]]

\* What the model may answer for a batch, as far as run_epoch reads it: per
\* head the arg-max of its logits (pred), their cross-entropy against the
\* gold labels (loss >= 0) and the gradient of that loss in the head's
\* weight (grad).  The model is opaque to train_utils.py; these are two
\* answers it can give.
\* Saturated on the gold labels: both losses and both gradients are 0.
Saturated(batch) ==
    <<[pred |-> batch.y[1], loss |-> Zero, grad |-> Zero],
      [pred |-> batch.y[2], loss |-> Zero, grad |-> Zero]>>
\* The first head misses one sample, the second is right with a finite
\* margin.
Mixed(batch) ==
    <<[pred |-> FirstWrong(batch.y[1]), loss |-> Rat(3, 1), grad |-> One],
      [pred |-> batch.y[2], loss |-> One, grad |-> RNeg(One)]>>

\* model(x) for a batch: (out1, out2).
ForwardOutputs(batch) == {Saturated(batch), Mixed(batch)}

ModelEval_StaysTraining(t) == t
\* model.eval() and model.train(): the value of model.training afterwards.
ModelEval(t) == FALSE
ModelTrain(t) == TRUE

IsTraining_Always(t) == TRUE
\* is_training = model.training (line 73).
IsTraining(t) == t

\* joint_loss = 0.5 * (loss1 + loss2) (line 98).
JointLoss(l1, l2) == RMul(Half, RAdd(l1, l2))

\* The gradient joint_loss.backward() adds to each weight's .grad: by
\* linearity the gradient of JointLoss in the head losses' gradients.
JointGrad(o) == [h \in Heads |-> JointLoss(IF h = 1 THEN o[1].grad ELSE Zero,
                                            IF h = 2 THEN o[2].grad ELSE Zero)]

ZeroGrad_Keeps(g) == g
\* optimizer.zero_grad() (line 97).
ZeroGrad(g) == ZeroVector

\* torch.optim.SGD.step with dampening 0 and no weight decay, per weight:
\* the momentum buffer starts as the first gradient (a zero buffer gives
\* the same) and is left alone when momentum is 0.
NewBuffer(g, buf) ==
    IF momentum = Zero THEN buf ELSE RAdd(RMul(momentum, buf), g)
Direction(g, buf) ==
    IF momentum = Zero THEN g
    ELSE IF nesterov THEN RAdd(g, RMul(momentum, NewBuffer(g, buf)))
    ELSE NewBuffer(g, buf)
SGDStep_IgnoresLr(p, d) == RSub(p, d)
SGDStep(p, d) == RSub(p, RMul(lr, d))

\* What torch.save(model, path) serializes: the whole module, its weights
\* and its mode flag.
Checkpoint(p, t) == [params |-> p, training |-> t]

OpenForWrite_Append(f) == [exists |-> TRUE, content |-> f.content]
\* open(path, 'wb') inside torch.save: the file is created or truncated.
OpenForWrite(f) == [exists |-> TRUE, content |-> <<>>]

\* A checkpoint an earlier run left at the same fixed path.
StaleCheckpoint == Checkpoint([h \in Heads |-> RNeg(One)], FALSE)

---------------------------------------------------------------------------
(* Spec: train_model.                                                      *)

\* The (lr, momentum, nesterov) train_model is called with.  SGD's
\* constructor refuses nesterov without momentum and a negative lr.
HyperParameters ==
    {<<Zero, Zero, FALSE>>, <<One, Zero, FALSE>>,
     <<One, Half, FALSE>>, <<One, Half, TRUE>>}

NoOutput == <<>>
NoReturn == [loss |-> <<>>, acc |-> <<>>]

Data == IF pc = "train" THEN train_data ELSE dev_data
InEpoch == pc \in {"train", "eval"}

\* run_epoch's frame is gone once its result has been printed.
LeaveRunEpoch ==
    /\ losses_first_label' = <<>>
    /\ losses_second_label' = <<>>
    /\ batch_accuracies_first' = <<>>
    /\ batch_accuracies_second' = <<>>
    /\ is_training' = FALSE
    /\ batch_idx' = 0
    /\ out' = NoOutput
    /\ rpc' = "idle"
    /\ returned' = NoReturn
    /\ loss1' = Zero /\ loss2' = Zero /\ joint_loss' = Zero

\* The entry of run_epoch (lines 67-73) for a model whose mode flag is t.
EnterRunEpoch(t) ==
    /\ losses_first_label' = <<>>
    /\ losses_second_label' = <<>>
    /\ batch_accuracies_first' = <<>>
    /\ batch_accuracies_second' = <<>>
    /\ is_training' = IsTraining(t)
    /\ batch_idx' = 0
    /\ out' = NoOutput
    /\ rpc' = "loop"
    /\ returned' = NoReturn
    /\ loss1' = Zero /\ loss2' = Zero /\ joint_loss' = Zero

Init ==
    /\ BatchUnused
    /\ AccUnused
    /\ \E h \in HyperParameters :
         lr = h[1] /\ momentum = h[2] /\ nesterov = h[3]
    /\ n_epochs \in 0..MaxEpochs
    /\ \E nt \in 0..MaxBatches, nd \in 0..MaxBatches :
         /\ train_data = SplitOf(nt, TrainerBatchSize)
         /\ dev_data = SplitOf(nd, TrainerBatchSize)
    /\ params = ZeroVector
    /\ training = TRUE
    /\ grad = ZeroVector
    /\ momentum_buffer = ZeroVector
    /\ pc = "loop"
    /\ epoch = 0
    /\ rpc = "idle"
    /\ is_training = FALSE
    /\ batch_idx = 0
    /\ out = NoOutput
    /\ losses_first_label = <<>> /\ losses_second_label = <<>>
    /\ batch_accuracies_first = <<>> /\ batch_accuracies_second = <<>>
    /\ loss1 = Zero /\ loss2 = Zero /\ joint_loss = Zero
    /\ returned = NoReturn
    /\ lines_printed = 0
    /\ file \in {[exists |-> FALSE, content |-> <<>>],
                 [exists |-> TRUE, content |-> <<StaleCheckpoint>>]}
    /\ hist = [initial_file |-> file, writes |-> 0, call_params |-> params,
               steps |-> 0, zero_grads |-> 0, backwards |-> 0, moved |-> 0,
               ops |-> <<>>, passes |-> <<>>, trained |-> params,
               completed |-> params, killed_at |-> ""]

\* Lines 49-53: the next epoch starts with the training pass.
StartEpoch ==
    /\ pc = "loop"
    /\ epoch < n_epochs
    /\ epoch' = epoch + 1
    /\ lines_printed' = lines_printed + 1
    /\ training' = ModelTrain(training)
    /\ EnterRunEpoch(training')
    /\ pc' = "train"
    /\ hist' = [hist EXCEPT !.call_params = params, !.steps = 0,
                            !.zero_grads = 0, !.backwards = 0, !.moved = 0,
                            !.ops = <<>>, !.passes = <<>>]
    /\ UNCHANGED <<batchVars, accVars, hyperVars, params, grad,
                   momentum_buffer, file>>

\* Line 49: the range is exhausted.
Finish ==
    /\ pc = "loop"
    /\ epoch = n_epochs
    /\ pc' = "done"
    /\ UNCHANGED <<batchVars, accVars, hyperVars, modelVars, epochVars,
                   epoch, lines_printed, file, hist>>

\* Lines 76-81: the loop takes the next batch and runs the model on it.
Forward ==
    /\ InEpoch
    /\ rpc = "loop"
    /\ batch_idx < Len(Data)
    /\ batch_idx' = batch_idx + 1
    /\ out' \in ForwardOutputs(Data[batch_idx'])
    /\ rpc' = "forward"
    /\ hist' = [hist EXCEPT !.ops = <<"forward">>]
    /\ UNCHANGED <<batchVars, accVars, hyperVars, modelVars, is_training,
                   losses_first_label, losses_second_label,
                   batch_accuracies_first, batch_accuracies_second,
                   loss1, loss2, joint_loss, returned,
                   pc, epoch, lines_printed, file>>

\* Lines 84-87: the arg-max predictions and their accuracies.
RecordAccuracy ==
    /\ InEpoch
    /\ rpc = "forward"
    /\ batch_accuracies_first' =
         Append(batch_accuracies_first,
                compute_accuracy(out[1].pred, Data[batch_idx].y[1]))
    /\ batch_accuracies_second' =
         Append(batch_accuracies_second,
                compute_accuracy(out[2].pred, Data[batch_idx].y[2]))
    /\ rpc' = "accuracy"
    /\ hist' = [hist EXCEPT !.ops = Append(@, "accuracy")]
    /\ UNCHANGED <<batchVars, accVars, hyperVars, modelVars, is_training,
                   batch_idx, out, losses_first_label, losses_second_label,
                   loss1, loss2, joint_loss, returned,
                   pc, epoch, lines_printed, file>>

\* Lines 90-96: the two losses, and the test that ends an evaluation batch.
RecordLoss ==
    /\ InEpoch
    /\ rpc = "accuracy"
    /\ loss1' = out[1].loss
    /\ loss2' = out[2].loss
    /\ losses_first_label' = Append(losses_first_label, loss1')
    /\ losses_second_label' = Append(losses_second_label, loss2')
    /\ rpc' = IF is_training THEN "update" ELSE "loop"
    /\ hist' = [hist EXCEPT !.ops = Append(@, "loss")]
    /\ UNCHANGED <<batchVars, accVars, hyperVars, modelVars, is_training,
                   batch_idx, out, batch_accuracies_first,
                   batch_accuracies_second, joint_loss, returned,
                   pc, epoch, lines_printed, file>>

\* Line 97.
ClearGradients ==
    /\ InEpoch
    /\ rpc = "update"
    /\ grad' = ZeroGrad(grad)
    /\ rpc' = "cleared"
    /\ hist' = [hist EXCEPT !.ops = Append(@, "zero_grad"),
                            !.zero_grads = @ + 1]
    /\ UNCHANGED <<batchVars, accVars, hyperVars, params, training,
                   momentum_buffer, is_training, batch_idx, out,
                   losses_first_label, losses_second_label,
                   batch_accuracies_first, batch_accuracies_second,
                   loss1, loss2, joint_loss, returned,
                   pc, epoch, lines_printed, file>>

\* Lines 98-99: backward() adds the joint loss's gradient to .grad.
Backward ==
    /\ InEpoch
    /\ rpc = "cleared"
    /\ joint_loss' = JointLoss(loss1, loss2)
    /\ grad' = [h \in Heads |-> RAdd(grad[h], JointGrad(out)[h])]
    /\ rpc' = "backward"
    /\ hist' = [hist EXCEPT !.ops = Append(@, "backward"),
                            !.backwards = @ + 1]
    /\ UNCHANGED <<batchVars, accVars, hyperVars, params, training,
                   momentum_buffer, is_training, batch_idx, out,
                   losses_first_label, losses_second_label,
                   batch_accuracies_first, batch_accuracies_second,
                   loss1, loss2, returned,
                   pc, epoch, lines_printed, file>>

\* Line 100.
OptimizerStep ==
    /\ InEpoch
    /\ rpc = "backward"
    /\ momentum_buffer' =
         [h \in Heads |-> NewBuffer(grad[h], momentum_buffer[h])]
    /\ params' =
         [h \in Heads |->
            SGDStep(params[h], Direction(grad[h], momentum_buffer[h]))]
    /\ rpc' = "loop"
    /\ hist' = [hist EXCEPT
                  !.ops = Append(@, "step"),
                  !.steps = @ + 1,
                  !.moved = @ + (IF \E h \in Heads :
                                      Direction(grad[h], momentum_buffer[h])
                                        # Zero
                                 THEN 1 ELSE 0)]
    /\ UNCHANGED <<batchVars, accVars, hyperVars, training, grad,
                   is_training, batch_idx, out,
                   losses_first_label, losses_second_label,
                   batch_accuracies_first, batch_accuracies_second,
                   loss1, loss2, joint_loss, returned,
                   pc, epoch, lines_printed, file>>

\* Lines 103-105: the epoch's means.
ReturnEpoch ==
    /\ InEpoch
    /\ rpc = "loop"
    /\ batch_idx = Len(Data)
    /\ returned' =
         [loss |-> <<Mean(losses_first_label), Mean(losses_second_label)>>,
          acc |-> <<Mean(batch_accuracies_first),
                    Mean(batch_accuracies_second)>>]
    /\ rpc' = "returned"
    /\ hist' = [hist EXCEPT !.trained = IF pc = "train" THEN params ELSE @,
                            !.passes = Append(@, pc)]
    /\ UNCHANGED <<batchVars, accVars, hyperVars, modelVars, is_training,
                   batch_idx, out, losses_first_label, losses_second_label,
                   batch_accuracies_first, batch_accuracies_second,
                   loss1, loss2, joint_loss, pc, epoch, lines_printed, file>>

\* Lines 54-57: the training metrics are printed and the evaluation pass
\* starts.
StartValidation ==
    /\ pc = "train"
    /\ rpc = "returned"
    /\ lines_printed' = lines_printed + 1
    /\ training' = ModelEval(training)
    /\ EnterRunEpoch(training')
    /\ pc' = "eval"
    /\ hist' = [hist EXCEPT !.call_params = params, !.steps = 0,
                            !.zero_grads = 0, !.backwards = 0, !.moved = 0,
                            !.ops = <<>>]
    /\ UNCHANGED <<batchVars, accVars, hyperVars, params, grad,
                   momentum_buffer, epoch, file>>

\* Lines 58-61: the validation metrics are printed and torch.save opens the
\* checkpoint file for writing.
OpenCheckpoint ==
    /\ pc = "eval"
    /\ rpc = "returned"
    /\ lines_printed' = lines_printed + 1
    /\ file' = OpenForWrite(file)
    /\ pc' = "saving"
    /\ LeaveRunEpoch
    /\ UNCHANGED <<batchVars, accVars, hyperVars, modelVars, epoch, hist>>

\* Line 61, continued: torch.save writes the pickled model and closes the
\* file.
WriteCheckpoint ==
    /\ pc = "saving"
    /\ file' = [file EXCEPT
                  !.content = Append(@, Checkpoint(params, training))]
    /\ pc' = "loop"
    /\ hist' = [hist EXCEPT !.writes = @ + 1, !.completed = hist.trained,
                            !.passes = Append(@, "save")]
    /\ UNCHANGED <<batchVars, accVars, hyperVars, modelVars, epochVars,
                   epoch, lines_printed>>

\* The process is terminated from outside: its memory is gone, the file
\* stays as it is.
Kill ==
    /\ pc \in {"loop", "train", "eval", "saving"}
    /\ pc' = "killed"
    /\ params' = <<>> /\ training' = FALSE /\ grad' = <<>>
    /\ momentum_buffer' = <<>>
    /\ LeaveRunEpoch
    /\ epoch' = 0
    /\ hist' = [hist EXCEPT !.killed_at = pc, !.call_params = <<>>,
                            !.steps = 0, !.zero_grads = 0, !.backwards = 0,
                            !.moved = 0, !.ops = <<>>, !.passes = <<>>,
                            !.trained = <<>>]
    /\ UNCHANGED <<batchVars, accVars, hyperVars, lines_printed, file>>

Next ==
    \/ StartEpoch
    \/ Finish
    \/ Forward
    \/ RecordAccuracy
    \/ RecordLoss
    \/ ClearGradients
    \/ Backward
    \/ OptimizerStep
    \/ ReturnEpoch
    \/ StartValidation
    \/ OpenCheckpoint
    \/ WriteCheckpoint
    \/ Kill

Spec == Init /\ [][Next]_vars

---------------------------------------------------------------------------
(* Properties of batch_data (SpecBatch).                                   *)

RECURSIVE ConcatX(_)
ConcatX(bs) == IF bs = <<>> THEN <<>> ELSE bs[1].x \o ConcatX(Tail(bs))
RECURSIVE ConcatY(_, _)
ConcatY(bs, h) == IF bs = <<>> THEN <<>> ELSE bs[1].y[h] \o ConcatY(Tail(bs), h)

BatchReturnedPositive == bd.pc = "returned" /\ bd.batch_size > 0
WholeBatches == Len(bd.x_data) \div bd.batch_size
Kept == WholeBatches * bd.batch_size

\* floor(N/b) batches, each of b samples and b labels per head, the labels
\* being the first floor(N/b)*b labels in order.
BatchShape ==
    /\ Len(bd.batches) = WholeBatches
    /\ \A k \in 1..Len(bd.batches) :
         /\ Len(bd.batches[k].x) = bd.batch_size
         /\ Len(bd.batches[k].y[1]) = bd.batch_size
         /\ Len(bd.batches[k].y[2]) = bd.batch_size
    /\ ConcatY(bd.batches, 1) = SubSeq(bd.y_data[1], 1, Kept)
    /\ ConcatY(bd.batches, 2) = SubSeq(bd.y_data[2], 1, Kept)

\* C1 as stated: for every positive batch_size b, batch_data returns
\* floor(N/b) batches of b samples and b labels per head whose concatenation
\* is the first floor(N/b)*b samples and labels, in order; the last N mod b
\* samples are in no batch.
C1_AsStated ==
    BatchReturnedPositive =>
        /\ BatchShape
        /\ ConcatX(bd.batches) = SubSeq(bd.x_data, 1, Kept)

\* C1, amended: as C1, except that the batches hold each of the first
\* floor(N/b)*b samples converted to float32 (the nearest float32 value),
\* which is the sample itself only when float32 can represent it.
C1_BatchesAreFloat32Prefix ==
    BatchReturnedPositive =>
        /\ BatchShape
        /\ ConcatX(bd.batches) = MapSeq(Float32, SubSeq(bd.x_data, 1, Kept))

C1_Witness ==
    /\ BatchReturnedPositive
    /\ Len(bd.batches) >= 1
    /\ Len(bd.x_data) % bd.batch_size > 0
    /\ \E k \in 1..Kept : Float32(bd.x_data[k]) # bd.x_data[k]

\* C6 as stated: for every batch_size <= 0, zero included, the call returns
\* an empty batch list.
C6_AsStated ==
    (bd.pc # "call" /\ bd.batch_size <= 0) =>
        (bd.pc = "returned" /\ bd.batches = <<>>)

\* C6, amended: batch_size is not validated; for every N >= 0 and every
\* negative batch_size the call returns an empty batch list, and for
\* batch_size = 0 it returns nothing: the division of line 22 raises
\* ZeroDivisionError.
C6_NegativeEmptyZeroRaises ==
    /\ (bd.pc # "call" /\ bd.batch_size < 0) =>
           (bd.pc = "returned" /\ bd.batches = <<>>)
    /\ (bd.pc # "call" /\ bd.batch_size = 0) =>
           (bd.pc = "raised" /\ bd.raised = "ZeroDivisionError")
    /\ (bd.pc = "raised") => bd.batch_size = 0

C6_Witness ==
    /\ bd.pc = "returned" /\ bd.batch_size < 0 /\ bd.batches = <<>>
    /\ Len(bd.x_data) > Abs(bd.batch_size)

---------------------------------------------------------------------------
(* Properties of compute_accuracy (SpecAcc).                               *)

Matches == {k \in 1..Len(ca.y) : ca.predictions[k] = ca.y[k]}
AccReturnedNonEmpty == ca.pc = "returned" /\ Len(ca.y) > 0

\* C5: for vectors of equal non-zero length compute_accuracy returns
\* (number of equal positions) / length: 1 for identical vectors, 0 for
\* vectors that differ everywhere, 1/2 when half the positions match; and
\* it modifies neither input.
C5_FractionOfMatches ==
    /\ AccReturnedNonEmpty =>
         /\ ~IsNaN(ca.result)
         /\ ca.result[1] * Len(ca.y) = Cardinality(Matches) * ca.result[2]
         /\ (ca.predictions = ca.y) => ca.result = One
         /\ (Matches = {}) => ca.result = Zero
         /\ (2 * Cardinality(Matches) = Len(ca.y)) => ca.result = Half
    /\ (ca.pc # "unused") => <<ca.predictions, ca.y>> = ca.given

C5_Witness ==
    /\ AccReturnedNonEmpty
    /\ 2 * Cardinality(Matches) = Len(ca.y)
    /\ ca.result = Half

---------------------------------------------------------------------------
(* Properties of run_epoch and train_model (Spec).                         *)

Returned == InEpoch /\ rpc = "returned"
TrainReturned == pc = "train" /\ rpc = "returned"
EvalReturned == pc = "eval" /\ rpc = "returned"
Values(r) == {r.loss[1], r.loss[2], r.acc[1], r.acc[2]}
LossInRange(l) == RLeq(Zero, l)
AccuracyInRange(a) == RLeq(Zero, a) /\ RLeq(a, One)
InRange(r) ==
    /\ LossInRange(r.loss[1]) /\ LossInRange(r.loss[2])
    /\ AccuracyInRange(r.acc[1]) /\ AccuracyInRange(r.acc[2])
\* m is the arithmetic mean of the non-empty list s.
IsMeanOf(m, s) ==
    /\ Len(s) = Len(Data)
    /\ RMul(m, Rat(Len(s), 1)) = SumSeq(s)
CompleteFile(p) == [exists |-> TRUE, content |-> <<Checkpoint(p, FALSE)>>]
TruncatedFile == [exists |-> TRUE, content |-> <<>>]

\* C2: a run_epoch call made while the model is in evaluation mode changes
\* no parameter, whatever the split, and performs no zero_grad, backward or
\* optimizer step.
C2_EvalLeavesParameters ==
    (InEpoch /\ ~training) =>
        /\ params = hist.call_params
        /\ hist.zero_grads = 0 /\ hist.backwards = 0 /\ hist.steps = 0
        /\ rpc \notin {"update", "cleared", "backward"}

C2_Witness ==
    /\ EvalReturned /\ ~training
    /\ Len(dev_data) >= 2
    /\ lr # Zero
    /\ out = Mixed(dev_data[batch_idx])
    /\ params # ZeroVector

\* C3: a train_model run of n epochs that completes has written the
\* checkpoint n times, once at the end of every epoch, each write replacing
\* what the file held; the file then holds only the model as of the end of
\* epoch n.
C3_OneCheckpointPerEpoch ==
    /\ (pc = "loop") => hist.writes = epoch
    /\ (pc = "done") =>
         /\ hist.writes = n_epochs
         /\ (n_epochs > 0) =>
              /\ file = CompleteFile(params)
              /\ params = hist.trained
         /\ (n_epochs = 0) => file = hist.initial_file

C3_Witness ==
    /\ pc = "done" /\ n_epochs = MaxEpochs /\ hist.writes = MaxEpochs
    /\ hist.initial_file.exists
    /\ params # ZeroVector
    /\ file = CompleteFile(params)

\* C4 as stated: wherever the run is killed, during the checkpoint write
\* too, the file is the complete checkpoint of the last completed epoch.
C4_AsStated ==
    (pc = "killed" /\ hist.writes >= 1) => file = CompleteFile(hist.completed)

\* C4, amended: if the run is killed at any point outside the checkpoint
\* write, the file is the complete checkpoint of the last fully completed
\* epoch (what the path held before the run when no epoch has completed)
\* and shows no update of the epoch in progress; killed during the
\* checkpoint write, it leaves a truncated file that holds no checkpoint.
C4_KilledOutsideWriteKeepsLastEpoch ==
    /\ (pc = "killed" /\ hist.killed_at # "saving") =>
         file = IF hist.writes = 0 THEN hist.initial_file
                ELSE CompleteFile(hist.completed)
    /\ (pc = "killed" /\ hist.killed_at = "saving") => file = TruncatedFile

C4_Witness ==
    /\ pc = "killed" /\ hist.killed_at = "train"
    /\ hist.writes >= 1
    /\ file = CompleteFile(hist.completed)
    /\ hist.completed # ZeroVector

C8_AsStated ==
    (TrainReturned /\ Len(train_data) > 0 /\ lr # Zero) =>
        params # hist.call_params

\* C8, amended: a training-mode call over a non-empty split applies one
\* optimizer step per batch, and the parameters after the call differ from
\* those before it only if the learning rate is nonzero and one of these
\* steps had a nonzero update (the gradient combined with the momentum
\* buffer); when every batch's update is zero the parameters stay as they
\* were.
C8_ChangeNeedsNonzeroUpdate ==
    TrainReturned =>
        /\ hist.steps = Len(train_data)
        /\ (params # hist.call_params) => (lr # Zero /\ hist.moved > 0)

C8_Witness ==
    /\ TrainReturned /\ Len(train_data) > 0 /\ lr # Zero
    /\ params # hist.call_params
    /\ hist.moved > 0

\* C9: in every epoch the training pass, the evaluation pass and the
\* checkpoint write run in this order without overlap: the model is in
\* training mode for every training batch and in evaluation mode for every
\* held-out batch, the evaluation pass starts after the last training
\* batch's step, no parameter changes between the end of the training pass
\* and the checkpoint write, and the next epoch starts after the write.
C9_PhasesInOrder ==
    /\ (pc = "train") =>
         /\ training /\ is_training
         /\ hist.passes = IF rpc = "returned" THEN <<"train">> ELSE <<>>
         /\ (rpc = "returned") => hist.steps = Len(train_data)
    /\ (pc = "eval") =>
         /\ ~training /\ ~is_training
         /\ hist.passes =
              IF rpc = "returned" THEN <<"train", "eval">> ELSE <<"train">>
         /\ params = hist.trained
    /\ (pc = "saving") =>
         /\ hist.passes = <<"train", "eval">>
         /\ params = hist.trained
    /\ (pc \in {"train", "eval", "saving"}) => hist.writes = epoch - 1
    /\ (pc = "loop" /\ epoch > 0) =>
         /\ hist.passes = <<"train", "eval", "save">>
         /\ hist.writes = epoch
         /\ file = CompleteFile(hist.trained)

C9_Witness ==
    /\ pc = "loop" /\ epoch = MaxEpochs
    /\ Len(train_data) >= 2 /\ Len(dev_data) >= 1
    /\ hist.passes = <<"train", "eval", "save">>
    /\ params # ZeroVector

\* C10: in training mode each batch, taken in split order, goes once
\* through forward pass, accuracies and losses recorded (with the
\* parameters from before the batch's update), clear gradients, backward
\* pass on 0.5 * (loss_a + loss_b), one optimizer step; after k batches k
\* steps have been applied, and the gradient a step applies is the current
\* batch's alone.
C10_OneUpdatePerBatch ==
    (InEpoch /\ is_training) =>
        /\ (rpc \in {"loop", "returned"}) =>
             /\ hist.steps = batch_idx
             /\ hist.zero_grads = batch_idx /\ hist.backwards = batch_idx
             /\ Len(losses_first_label) = batch_idx
             /\ Len(batch_accuracies_first) = batch_idx
        /\ (rpc \in {"loop", "returned"} /\ batch_idx > 0) =>
             hist.ops = <<"forward", "accuracy", "loss", "zero_grad",
                          "backward", "step">>
        /\ (rpc \in {"forward", "accuracy", "update", "cleared",
                     "backward"}) => hist.steps = batch_idx - 1
        /\ (rpc = "backward") =>
             /\ RAdd(joint_loss, joint_loss) = RAdd(loss1, loss2)
             /\ \A h \in Heads : RAdd(grad[h], grad[h]) = out[h].grad
        /\ (rpc = "returned") => hist.steps = Len(Data)

C10_Witness ==
    /\ TrainReturned /\ hist.steps >= 2
    /\ loss1 # loss2
    /\ grad # ZeroVector
    /\ hist.ops = <<"forward", "accuracy", "loss", "zero_grad", "backward",
                    "step">>

===========================================================================
